---- MODULE Spec2Model ----
(***************************************************************************)
(* Model of the archetype storage of flecs (src/src/table.c): data blocks *)
(* (identifier list plus one column per type entry), insert / grow /      *)
(* delete / swap / move_back_and_swap / merge / clear, the activation of  *)
(* registered queries, and the staged overlay used while a read pass is   *)
(* in progress.                                                            *)
(*                                                                         *)
(* Rows are 0-based as in the C code; the element at row r of a vector v  *)
(* is v.elems[r + 1].  A vector is either NULL (alloc = FALSE) or an      *)
(* allocated buffer with a count.  The element appended for a record is   *)
(* uninitialised in the source; the model labels it with the identifier   *)
(* of the record it was appended for, so that the element can be followed *)
(* through later moves.  Elements created by a resize carry Uninit.       *)
(***************************************************************************)
EXTENDS Integers, Sequences, FiniteSets, TLC

\* ------------------------------------------------------------------ bounds
MaxEntity == 3      \* record identifiers are 1..MaxEntity
MaxRows == 3        \* no append once a vector of the block holds MaxRows elements
MaxGrow == 2        \* largest count handed to grow

Entities == 1..MaxEntity
\* keys of the entity index: the identifiers, and the key an uninitialised
\* identifier slot reads as
IndexKeys == Entities \cup {0}
Queries == {1, 2}
TableIds == {1, 2}

\* ------------------------------------------------- property metadata, types
Tag == 1
Pos == 2
Vel == 3

\* size_of(id): component->size found by new_data; 0 for a tag.  Every
\* non-tag component of the fixture is as wide as an entity identifier.
ComponentSize(c) == IF c = Tag THEN 0 ELSE 8

EntityIdSize == 8

\* ECS_ENTITY_FLAGS_MASK: the role bits above the identifier bits.
EntityFlags(c) == c \div 16

Types == { <<Tag>>, <<Pos>>, <<Pos, Vel>>, <<Tag, Pos>> }
NullType == <<>>

Uninit == 0

\* ------------------------------------------------------------------ vectors
NullVec == [alloc |-> FALSE, elems |-> <<>>]

ecs_vector_count(v) == IF v.alloc THEN Len(v.elems) ELSE 0

ecs_vector_add(v, x) == [alloc |-> TRUE, elems |-> Append(v.elems, x)]

\* drops the last element; nothing to do for a NULL or empty vector
ecs_vector_remove_last(v) ==
    IF ecs_vector_count(v) = 0 THEN v
    ELSE [v EXCEPT !.elems = SubSeq(v.elems, 1, Len(v.elems) - 1)]

\* swap-remove of the element at index (index < count is the caller's duty)
ecs_vector_remove_index(v, index) ==
    LET n == Len(v.elems)
        moved == IF index + 1 # n THEN [v.elems EXCEPT ![index + 1] = v.elems[n]]
                 ELSE v.elems
    IN  [v EXCEPT !.elems = SubSeq(moved, 1, n - 1)]

\* count set to n; new elements are uninitialised
ecs_vector_set_count(v, n) ==
    [alloc |-> TRUE,
     elems |-> [i \in 1..n |-> IF i <= Len(v.elems) THEN v.elems[i] ELSE Uninit]]

\* ------------------------------------------------------------------ blocks
\* new_data: one column per type entry, its size from the property metadata,
\* no buffer and no identifier list yet.
new_data(type) ==
    [entities |-> NullVec,
     columns  |-> [i \in 1..Len(type) |->
                     [size |-> ComponentSize(type[i]), data |-> NullVec]]]

NoData == [entities |-> NullVec, columns |-> <<>>]

VARIABLES
    tables,          \* table id -> [type, data (main block), queries]
    stage_data,      \* table id -> [present, data]: the stage's overlay blocks
    in_progress,     \* world->in_progress
    should_resolve,  \* world->should_resolve
    entity_index,    \* world->main_stage.entity_index: entity -> [type, row]
    stage_index,     \* the deferred stage's entity_index
    active,          \* query -> table id -> last activation it was told
    notified,        \* activations sent by the last operation, in order
    removed,         \* removal notification sent by the last operation
    fault,           \* "none", "abort" (ecs_assert / ecs_abort) or "crash"
    last_handle,     \* the last identifier handed out; identifiers are not reused
    ret              \* the value the last operation returned (0: none)

vars == <<tables, stage_data, in_progress, should_resolve, entity_index,
          stage_index, active, notified, removed, fault, last_handle, ret>>

\* an entity index entry; set = FALSE: the map holds no record for the entity
NoRecord == [set |-> FALSE, type |-> NullType, row |-> 0]
Record(type, row) == [set |-> TRUE, type |-> type, row |-> row]
NoRemoval == [table |-> 0, row |-> 0, count |-> 0]

Range(s) == { s[i] : i \in DOMAIN s }

\* the precondition of merge: every component of the source type occurs in
\* the destination type
IsSuperset(new_type, old_type) == Range(old_type) \subseteq Range(new_type)

\* ecs_table_init for two archetypes: table 2's type is a strict superset of
\* table 1's, so that table 1 can be merged into table 2.  qs: the queries
\* already registered with both tables (registered while they were empty).
InitWith(qs) ==
    /\ \E ty1 \in Types : \E ty2 \in Types \ {ty1} :
         /\ IsSuperset(ty2, ty1)
         /\ tables = [t \in TableIds |->
                       [type    |-> IF t = 1 THEN ty1 ELSE ty2,
                        data    |-> new_data(IF t = 1 THEN ty1 ELSE ty2),
                        queries |-> qs]]
    /\ stage_data = [t \in TableIds |-> [present |-> FALSE, data |-> NoData]]
    /\ in_progress = FALSE
    /\ should_resolve = FALSE
    /\ entity_index = [e \in IndexKeys |-> NoRecord]
    /\ stage_index = [e \in IndexKeys |-> NoRecord]
    /\ active = [q \in Queries |-> [t \in TableIds |-> FALSE]]
    /\ notified = <<>>
    /\ removed = NoRemoval
    /\ fault = "none"
    /\ last_handle = 0
    /\ ret = 0

\* the state after ecs_table_init: no query registered
Init == InitWith(<<>>)

\* the same with queries 1 and 2 registered with both tables
InitObserved == InitWith(<<1, 2>>)

\* ---------------------------------------------------------------- helpers
Max(S) == CHOOSE x \in S : \A y \in S : y <= x

\* a write that always goes to the main block, pass or no pass
get_data_unstaged(t) == "main"

\* ecs_table_get_data: which block a write goes to.  "main" is table->data,
\* "stage" the overlay kept in stage->data_stage under the table's type.
ecs_table_get_data(t) == IF ~in_progress THEN "main" ELSE "stage"

\* the block behind a reference; the overlay is created empty when absent
Deref(t, ref) ==
    IF ref = "main" THEN tables[t].data
    ELSE IF stage_data[t].present THEN stage_data[t].data
    ELSE new_data(tables[t].type)

\* store block d behind the reference
WriteBlock(t, ref, d) ==
    IF ref = "main"
    THEN /\ tables' = [tables EXCEPT ![t].data = d]
         /\ UNCHANGED stage_data
    ELSE /\ stage_data' = [stage_data EXCEPT ![t] = [present |-> TRUE, data |-> d]]
         /\ UNCHANGED tables

\* the entity index a stage writes: the main stage's, or the deferred stage's
WriteIndex(ref, idx) ==
    IF ref = "main"
    THEN /\ entity_index' = idx
         /\ UNCHANGED stage_index
    ELSE /\ stage_index' = idx
         /\ UNCHANGED entity_index

IndexOf(ref) == IF ref = "main" THEN entity_index ELSE stage_index

\* a notification to every registered query, whichever query was given
activate_every_query(t, query, activate) ==
    [i \in 1..Len(tables[t].queries) |->
        [q |-> tables[t].queries[i], t |-> t, active |-> activate]]

\* activate_table: the notifications it sends; query 0 stands for "no query"
activate_table(t, query, activate) ==
    IF query # 0
    THEN << [q |-> query, t |-> t, active |-> activate] >>
    ELSE [i \in 1..Len(tables[t].queries) |->
            [q |-> tables[t].queries[i], t |-> t, active |-> activate]]

\* ecs_query_activate_table: what each query was last told about each table
Deliver(notes) ==
    /\ notified' = notes
    /\ active' = [q \in Queries |-> [t \in TableIds |->
            LET hits == { i \in 1..Len(notes) : notes[i].q = q /\ notes[i].t = t }
            IN  IF hits = {} THEN active[q][t] ELSE notes[Max(hits)].active]]

\* the bound of the model: room for k more elements in every vector
CanAppend(data, k) ==
    /\ ecs_vector_count(data.entities) + k <= MaxRows
    /\ \A i \in DOMAIN data.columns :
         ecs_vector_count(data.columns[i].data) + k <= MaxRows

\* the process stops at a failed ecs_assert / ecs_abort
Fail(kind) ==
    /\ fault' = kind
    /\ ret' = 0
    /\ notified' = <<>>
    /\ removed' = NoRemoval
    /\ UNCHANGED <<tables, stage_data, in_progress, should_resolve,
                   entity_index, stage_index, active, last_handle>>

\* The caller of insert / grow stores the new record's location in the entity
\* index of its stage: the table's type and the returned row, 1-based.
CallerRecords(idx, type, ids, first_row) ==
    [e \in IndexKeys |->
       LET at == { i \in 1..Len(ids) : ids[i] = e }
       IN  IF at = {} THEN idx[e] ELSE Record(type, first_row + Max(at))]

\* ----------------------------------------------------------------- insert
\* columns whose buffer address changes on an append: a NULL vector is
\* always newly allocated, an allocated one moves when realloc moves it (mv)
MovedColumns(data, mv) ==
    { i \in DOMAIN data.columns :
        /\ data.columns[i].size # 0
        /\ (~data.columns[i].data.alloc \/ i \in mv) }

\* ecs_table_insert, lines 248-259: reallocd
InsertReallocd(data, mv) == MovedColumns(data, mv) # {}

\* ecs_table_insert, lines 239-259: the block after the appends
InsertData(data, e) ==
    [entities |-> ecs_vector_add(data.entities, e),
     columns  |-> [i \in DOMAIN data.columns |->
                     IF data.columns[i].size # 0
                     THEN [data.columns[i] EXCEPT !.data = ecs_vector_add(@, e)]
                     ELSE data.columns[i]]]

\* line 261: the row insert returns
InsertIndex(newdata) == ecs_vector_count(newdata.columns[1].data) - 1

\* line 263: the condition under which insert activates the table
InsertActivates(index) == ~in_progress /\ index = 0

\* should_resolve raised by every reallocation, whatever block was written
RaisesOnAnyBlock(reallocd, ref) == reallocd

\* lines 267 and 384: the condition under which should_resolve is raised
RaisesResolve(reallocd, ref) == reallocd /\ ref = "main"

Insert(t, e, mv) ==
    /\ fault = "none"
    /\ e = last_handle + 1
    /\ last_handle' = e
    /\ LET ref     == ecs_table_get_data(t)
           data    == Deref(t, ref)
           newdata == InsertData(data, e)
           index   == InsertIndex(newdata)
           realloc == InsertReallocd(data, mv)
       IN  /\ CanAppend(data, 1)
           /\ mv \subseteq { i \in DOMAIN data.columns :
                              data.columns[i].size # 0 /\ data.columns[i].data.alloc }
           /\ WriteBlock(t, ref, newdata)
           /\ Deliver(IF InsertActivates(index) THEN activate_table(t, 0, TRUE) ELSE <<>>)
           /\ should_resolve' = (should_resolve \/ RaisesResolve(realloc, ref))
           /\ ret' = index
           /\ WriteIndex(ref, CallerRecords(IndexOf(ref), tables[t].type, <<e>>, index))
           /\ removed' = NoRemoval
           /\ UNCHANGED <<in_progress, fault>>

\* ------------------------------------------------------------------- grow
\* ecs_table_grow, lines 353-377: the block after the appends
GrowData(data, count, first) ==
    LET ids == [i \in 1..count |-> first + i - 1]
    IN  [entities |-> [alloc |-> TRUE, elems |-> data.entities.elems \o ids],
         columns  |-> [i \in DOMAIN data.columns |->
                         IF data.columns[i].size # 0
                         THEN [data.columns[i] EXCEPT
                                 !.data = [alloc |-> TRUE, elems |-> @.elems \o ids]]
                         ELSE data.columns[i]]]

\* line 379
GrowRowCount(newdata) == ecs_vector_count(newdata.columns[1].data)

\* line 380
GrowActivates(row_count, count) == ~in_progress /\ row_count = count

Grow(t, count, first, mv) ==
    /\ fault = "none"
    /\ first = last_handle + 1
    /\ first + count - 1 <= MaxEntity
    /\ last_handle' = first + count - 1
    /\ LET ref       == ecs_table_get_data(t)
           data      == Deref(t, ref)
           newdata   == GrowData(data, count, first)
           row_count == GrowRowCount(newdata)
           realloc   == InsertReallocd(data, mv)
       IN  /\ CanAppend(data, count)
           /\ mv \subseteq { i \in DOMAIN data.columns :
                              data.columns[i].size # 0 /\ data.columns[i].data.alloc }
           /\ WriteBlock(t, ref, newdata)
           /\ Deliver(IF GrowActivates(row_count, count)
                      THEN activate_table(t, 0, TRUE) ELSE <<>>)
           /\ should_resolve' = (should_resolve \/ RaisesResolve(realloc, ref))
           /\ ret' = row_count - count
           /\ WriteIndex(ref, CallerRecords(IndexOf(ref), tables[t].type,
                             [i \in 1..count |-> first + i - 1], row_count - count))
           /\ removed' = NoRemoval
           /\ UNCHANGED <<in_progress, fault>>

\* ----------------------------------------------------------------- delete
\* lines 300-320: row index is not the last row
DeleteMiddle(data, index, count) ==
    [entities |-> ecs_vector_remove_last(
                    [data.entities EXCEPT
                       !.elems[index + 1] = data.entities.elems[count + 1]]),
     columns  |-> [i \in DOMAIN data.columns |->
                     IF data.columns[i].size # 0
                     THEN [data.columns[i] EXCEPT
                             !.data = ecs_vector_remove_index(@, index)]
                     ELSE data.columns[i]]]

\* lines 300-320 for a negative row, which no assertion rejects: the moved
\* identifier (line 304) and the moved column elements (line 308) are written
\* before the start of their buffers, and every list loses its last element
DeleteNegative(data) ==
    [entities |-> ecs_vector_remove_last(data.entities),
     columns  |-> [i \in DOMAIN data.columns |->
                     IF data.columns[i].size # 0
                     THEN [data.columns[i] EXCEPT !.data = ecs_vector_remove_last(@)]
                     ELSE data.columns[i]]]

\* first column the last-row branch shrinks (line 326: i = 1, 0-based)
DeleteLastFirstColumn == 2

\* lines 323-331: row index is the last row
DeleteLast(data) ==
    [entities |-> ecs_vector_remove_last(data.entities),
     columns  |-> [i \in DOMAIN data.columns |->
                     IF i >= DeleteLastFirstColumn /\ data.columns[i].size # 0
                     THEN [data.columns[i] EXCEPT !.data = ecs_vector_remove_last(@)]
                     ELSE data.columns[i]]]

\* line 333
DeleteDeactivates(count) == ~in_progress /\ count = 0

Delete(t, index) ==
    /\ fault = "none"
    /\ LET ref   == ecs_table_get_data(t)
           data  == Deref(t, ref)
           count == ecs_vector_count(data.entities) - 1
       IN  IF count + 1 = 0 \/ index > count
           THEN Fail("abort")                      \* lines 291, 295
           ELSE IF index < 0
           THEN LET to_move == data.entities.elems[count + 1]
                IN  /\ WriteBlock(t, ref, DeleteNegative(data))
                    /\ WriteIndex(ref, [IndexOf(ref) EXCEPT ![to_move] =
                            Record(tables[t].type, index + 1)])
                    /\ fault' \in {"none", "crash"}
                    /\ Deliver(IF DeleteDeactivates(count)
                               THEN activate_table(t, 0, FALSE) ELSE <<>>)
                    /\ ret' = 0
                    /\ removed' = NoRemoval
                    /\ UNCHANGED <<in_progress, should_resolve, last_handle>>
           ELSE IF index # count
           THEN IF \E i \in DOMAIN data.columns :
                     /\ data.columns[i].size # 0
                     /\ index >= ecs_vector_count(data.columns[i].data)
                THEN Fail("abort")    \* _ecs_vector_remove_index: index < count
                ELSE LET to_move == data.entities.elems[count + 1]
                     IN  /\ WriteBlock(t, ref, DeleteMiddle(data, index, count))
                         /\ WriteIndex(ref, [IndexOf(ref) EXCEPT ![to_move] =
                                 Record(tables[t].type, index + 1)])
                         /\ Deliver(IF DeleteDeactivates(count)
                                    THEN activate_table(t, 0, FALSE) ELSE <<>>)
                         /\ ret' = 0
                         /\ removed' = NoRemoval
                         /\ UNCHANGED <<in_progress, should_resolve, fault, last_handle>>
           ELSE /\ WriteBlock(t, ref, DeleteLast(data))
                /\ Deliver(IF DeleteDeactivates(count)
                           THEN activate_table(t, 0, FALSE) ELSE <<>>)
                /\ ret' = 0
                /\ removed' = NoRemoval
                /\ UNCHANGED <<in_progress, should_resolve, entity_index,
                               stage_index, fault, last_handle>>

\* ------------------------------------------------------------------ merge
\* line 576: the element offset in dst at which merge_vector copies src
MergeOffset(dst_count, src_count) == src_count

\* merge_vector, lines 551-582.  Result: the vector left in *dst_out, and
\* whether the copy ran past the end of the resized buffer.
merge_vector(dst, src, size) ==
    LET dst_count == ecs_vector_count(dst)
        src_count == ecs_vector_count(src)
        off       == MergeOffset(dst_count, src_count)
        total     == dst_count + src_count
        resized   == ecs_vector_set_count(dst, total)
    IN  IF dst_count = 0
        THEN [vec |-> src, overrun |-> FALSE]
        ELSE [vec |-> [resized EXCEPT !.elems =
                        [i \in 1..total |->
                           IF size > 0 /\ i > off /\ i <= off + src_count
                           THEN src.elems[i - off]
                           ELSE resized.elems[i]]],
              overrun |-> (size > 0 /\ off + src_count > total)]

\* lines 633-673: the two-index walk over the destination and source types.
\* i_new and i_old are the 0-based indices of the source; column i of a block
\* is columns[i + 1] and component i of a type is type[i + 1].
RECURSIVE MergeWalk(_, _, _, _, _, _, _)
MergeWalk(i_new, i_old, new_type, old_type, new_columns, old_columns, overrun) ==
    IF i_new >= Len(new_type) \/ i_old = Len(old_type)
    THEN [new_columns |-> new_columns, old_columns |-> old_columns,
          overrun |-> overrun, abort |-> FALSE]
    ELSE LET new_component == IF i_new # 0 THEN new_type[i_new] ELSE 0
             old_component == IF i_new # 0 THEN old_type[i_old] ELSE 0
             size == IF i_new # 0 THEN new_columns[i_new + 1].size ELSE EntityIdSize
             mv   == merge_vector(new_columns[i_new + 1].data,
                                  old_columns[i_old + 1].data, size)
         IN  IF EntityFlags(new_component) # 0 \/ EntityFlags(old_component) # 0
             THEN [new_columns |-> new_columns, old_columns |-> old_columns,
                   overrun |-> overrun, abort |-> FALSE]
             ELSE IF new_component = old_component
             THEN MergeWalk(i_new + 1, i_old + 1, new_type, old_type,
                     [new_columns EXCEPT ![i_new + 1].data = mv.vec],
                     [old_columns EXCEPT ![i_old + 1].data = NullVec],
                     overrun \/ mv.overrun)
             ELSE IF new_component < old_component
             THEN [new_columns |-> new_columns, old_columns |-> old_columns,
                   overrun |-> overrun, abort |-> TRUE]
             ELSE MergeWalk(i_new, i_old + 1, new_type, old_type, new_columns,
                     [old_columns EXCEPT ![i_old + 1].data = NullVec], overrun)

\* line 605 and 608: the row count merge reads, from the first column
FirstColumnCount(data) == ecs_vector_count(data.columns[1].data)

\* line 615: the row merge stores in the entity index for source row i
MergeRow(i, new_count) == i + new_count

\* lines 611-617: the entity index after the source's records were re-pointed.
\* Only rows that exist in the identifier list name a record.
MergeIndex(idx, old_entities, old_count, new_type, new_count) ==
    [e \in IndexKeys |->
       LET rows == { i \in 0..(old_count - 1) :
                       i < ecs_vector_count(old_entities)
                       /\ old_entities.elems[i + 1] = e }
       IN  IF rows = {} THEN idx[e]
           ELSE Record(new_type, MergeRow(Max(rows), new_count))]

\* lines 605-676 for a present destination: the Merge algorithm on two blocks
MergeData(new_type, new_data_, old_type, old_data, idx) ==
    LET old_count == FirstColumnCount(old_data)
        new_count == FirstColumnCount(new_data_)
        index     == MergeIndex(idx, old_data.entities, old_count, new_type, new_count)
        overread  == old_count > ecs_vector_count(old_data.entities)
        walk      == MergeWalk(0, 0, new_type, old_type,
                               new_data_.columns, old_data.columns, FALSE)
        ents      == merge_vector(new_data_.entities, old_data.entities, EntityIdSize)
    IN  IF old_count = 0
        THEN [new_data |-> new_data_, old_data |-> old_data, index |-> index,
              abort |-> FALSE, undefined |-> overread]
        ELSE IF walk.abort
        THEN [new_data |-> new_data_, old_data |-> old_data, index |-> index,
              abort |-> TRUE, undefined |-> overread]
        ELSE [new_data |-> [entities |-> ents.vec, columns |-> walk.new_columns],
              old_data |-> [entities |-> NullVec, columns |-> walk.old_columns],
              index    |-> index,
              abort    |-> FALSE,
              undefined |-> (overread \/ walk.overrun \/ ents.overrun)]

\* clear_columns, lines 122-135: every column buffer freed
clear_columns(data) ==
    [data EXCEPT !.columns = [i \in DOMAIN data.columns |->
                                [data.columns[i] EXCEPT !.data = NullVec]]]

\* ecs_table_deinit, lines 107-120: the removal notification, if any
ecs_table_deinit(t) ==
    LET count == ecs_vector_count(tables[t].data.entities)
    IN  IF count # 0 THEN [table |-> t, row |-> 0, count |-> count] ELSE NoRemoval

\* ecs_table_clear, lines 140-154: the notifications it sends
ClearNotes(t) ==
    IF ecs_vector_count(tables[t].data.entities) # 0
    THEN activate_table(t, 0, FALSE) ELSE <<>>

\* ecs_table_merge with both tables given
Merge(new, old) ==
    /\ fault = "none"
    /\ ~in_progress
    /\ new # old
    /\ LET r    == MergeData(tables[new].type, tables[new].data,
                             tables[old].type, tables[old].data, entity_index)
       IN  IF r.abort
           THEN Fail("abort")                             \* line 666
           ELSE /\ tables' = [tables EXCEPT ![new].data = r.new_data,
                                            ![old].data = r.old_data]
                /\ entity_index' = r.index
                /\ fault' \in (IF r.undefined THEN {"none", "crash"} ELSE {"none"})
                /\ Deliver(<<>>)
                /\ ret' = 0
                /\ removed' = NoRemoval
                /\ UNCHANGED <<stage_data, in_progress, should_resolve, stage_index, last_handle>>

\* ecs_table_merge with new_table == NULL.  Line 596 reads new_table->data
\* through the null pointer before line 619 tests it: either the read traps,
\* or it yields nothing and lines 605-622 run (ecs_table_delete_all).
MergeAbsent(old) ==
    /\ fault = "none"
    /\ ~in_progress
    /\ LET old_data  == tables[old].data
           old_count == FirstColumnCount(old_data)
       IN  \/ Fail("crash")
           \/ /\ entity_index' = MergeIndex(entity_index, old_data.entities,
                                            old_count, NullType, 0)
              /\ removed' = ecs_table_deinit(old)
              /\ tables' = [tables EXCEPT ![old].data = clear_columns(old_data)]
              /\ Deliver(ClearNotes(old))
              /\ fault' \in (IF old_count > ecs_vector_count(old_data.entities)
                             THEN {"none", "crash"} ELSE {"none"})
              /\ ret' = 0
              /\ UNCHANGED <<stage_data, in_progress, should_resolve, stage_index, last_handle>>

\* ------------------------------------------------------------------ clear
Clear(t) ==
    /\ fault = "none"
    /\ ~in_progress
    /\ tables' = [tables EXCEPT ![t].data = clear_columns(@)]
    /\ Deliver(ClearNotes(t))
    /\ ret' = 0
    /\ removed' = NoRemoval
    /\ UNCHANGED <<stage_data, in_progress, should_resolve, entity_index,
                   stage_index, fault, last_handle>>

\* --------------------------------------------------------------- register
\* ecs_table_register_query, lines 211-223
RegisterNotes(t, query) ==
    IF ecs_vector_count(tables[t].data.entities) # 0
    THEN activate_table(t, query, TRUE) ELSE <<>>

Register(t, query) ==
    /\ fault = "none"
    /\ query = Len(tables[t].queries) + 1     \* the k-th query of a table is named k
    /\ tables' = [tables EXCEPT ![t].queries = Append(@, query)]
    /\ Deliver(RegisterNotes(t, query))
    /\ ret' = 0
    /\ removed' = NoRemoval
    /\ UNCHANGED <<stage_data, in_progress, should_resolve, entity_index,
                   stage_index, fault, last_handle>>

\* ------------------------------------------------------------------ count
\* ecs_table_count, lines 424-432: the assertion of line 429 and the result
CountAsserts(t) == tables[t].data.entities.alloc

ecs_table_count(t) == ecs_vector_count(tables[t].data.entities)

Count(t) ==
    /\ fault = "none"
    /\ IF ~CountAsserts(t)
       THEN Fail("abort")
       ELSE /\ ret' = ecs_table_count(t)
            /\ notified' = <<>>
            /\ removed' = NoRemoval
            /\ UNCHANGED <<tables, stage_data, in_progress, should_resolve,
                           entity_index, stage_index, active, fault, last_handle>>

\* ------------------------------------------------------------------- swap
\* element r of a buffer, or uninitialised memory past its end
ElemAt(v, r) == IF r < ecs_vector_count(v) THEN v.elems[r + 1] ELSE Uninit

InRange(v, r) == r >= 0 /\ r < ecs_vector_count(v)

\* lines 482-489: the two elements of one column exchanged; a write past the
\* end of the buffer does not land in the column
SwapElems(v, row_1, row_2) ==
    [v EXCEPT !.elems = [i \in DOMAIN v.elems |->
                           IF i = row_1 + 1 THEN ElemAt(v, row_2)
                           ELSE IF i = row_2 + 1 THEN ElemAt(v, row_1)
                           ELSE v.elems[i]]]

\* lines 468-491: the block after the swap
SwapData(data, row_1, row_2) ==
    [entities |-> SwapElems(data.entities, row_1, row_2),
     columns  |-> [i \in DOMAIN data.columns |->
                     IF data.columns[i].size # 0
                     THEN [data.columns[i] EXCEPT !.data = SwapElems(@, row_1, row_2)]
                     ELSE data.columns[i]]]

\* the index left as it was by a swap
SwapIndexStale(idx, e1, e2, row_1, row_2) == idx

\* lines 471-472: the rows stored for the two records
SwapIndex(idx, e1, e2, row_1, row_2) ==
    [idx EXCEPT ![e1].row = row_2 + 1, ![e2].row = row_1 + 1]

\* some non-tag column is too short to hold every row in rows
ColumnsShort(data, rows) ==
    \E i \in DOMAIN data.columns :
        /\ data.columns[i].size # 0
        /\ \E r \in rows : ~InRange(data.columns[i].data, r)

Swap(t, row_1, row_2) ==
    /\ fault = "none"
    /\ LET ref  == ecs_table_get_data(t)
           data == Deref(t, ref)
           e1   == data.entities.elems[row_1 + 1]
           e2   == data.entities.elems[row_2 + 1]
           idx  == IndexOf(ref)
       IN  /\ InRange(data.entities, row_1)
           /\ InRange(data.entities, row_2)
           /\ IF row_1 = row_2
              THEN /\ ret' = 0                                    \* line 451
                   /\ notified' = <<>>
                   /\ removed' = NoRemoval
                   /\ UNCHANGED <<tables, stage_data, in_progress, should_resolve,
                                  entity_index, stage_index, active, fault, last_handle>>
              ELSE IF ~idx[e1].set \/ ~idx[e2].set
              THEN Fail("crash")      \* ecs_map_get found no record: NULL
              ELSE /\ WriteBlock(t, ref, SwapData(data, row_1, row_2))
                   /\ WriteIndex(ref, SwapIndex(idx, e1, e2, row_1, row_2))
                   /\ fault' \in (IF ColumnsShort(data, {row_1, row_2})
                                  THEN {"none", "crash"} ELSE {"none"})
                   /\ Deliver(<<>>)
                   /\ ret' = 0
                   /\ removed' = NoRemoval
                   /\ UNCHANGED <<in_progress, should_resolve, last_handle>>

\* ----------------------------------------------------- move_back_and_swap
\* lines 510-519 and 531-546: rows row-1 .. row+count-1 of one buffer
MoveBackElems(v, row, count) ==
    [v EXCEPT !.elems = [i \in DOMAIN v.elems |->
                           IF i - 1 >= row - 1 /\ i - 1 < row + count - 1
                           THEN ElemAt(v, i)
                           ELSE IF i - 1 = row + count - 1
                           THEN ElemAt(v, row - 1)
                           ELSE v.elems[i]]]

MoveBackData(data, row, count) ==
    [entities |-> MoveBackElems(data.entities, row, count),
     columns  |-> [i \in DOMAIN data.columns |->
                     IF data.columns[i].size # 0
                     THEN [data.columns[i] EXCEPT !.data = MoveBackElems(@, row, count)]
                     ELSE data.columns[i]]]

\* the index left as it was by a move
MoveBackIndexStale(idx, entities, row, count) == idx

\* lines 515-516 and 520-521: the rows stored for the moved records
MoveBackIndex(idx, entities, row, count) ==
    [e \in IndexKeys |->
       IF \E i \in 0..(count - 1) : entities.elems[row + i + 1] = e
       THEN [idx[e] EXCEPT !.row =
               row + (CHOOSE i \in 0..(count - 1) : entities.elems[row + i + 1] = e)]
       ELSE IF entities.elems[row] = e
       THEN [idx[e] EXCEPT !.row = row + count]
       ELSE idx[e]]

MoveBackAndSwap(t, row, count) ==
    /\ fault = "none"
    /\ LET ref  == ecs_table_get_data(t)
           data == Deref(t, ref)
           idx  == IndexOf(ref)
       IN  /\ row >= 1
           /\ row + count <= ecs_vector_count(data.entities)
           /\ IF \E r \in (row - 1)..(row + count - 1) :
                    ~idx[data.entities.elems[r + 1]].set
              THEN Fail("crash")      \* ecs_map_get found no record: NULL
              ELSE /\ WriteBlock(t, ref, MoveBackData(data, row, count))
                   /\ WriteIndex(ref, MoveBackIndex(idx, data.entities, row, count))
                   /\ fault' \in (IF ColumnsShort(data, (row - 1)..(row + count - 1))
                                  THEN {"none", "crash"} ELSE {"none"})
                   /\ Deliver(<<>>)
                   /\ ret' = 0
                   /\ removed' = NoRemoval
                   /\ UNCHANGED <<in_progress, should_resolve, last_handle>>

\* --------------------------------------------------------------- get_data
\* the address of a block: the main block of table t, or the overlay the
\* stage keeps for table t's type
BlockHandle(t, ref) == IF ref = "main" THEN t ELSE MaxRows + t

\* ecs_table_get_data called on its own, lines 75-94: the block is returned,
\* and a stage that has no block for the table's type yet gets an empty one
GetData(t) ==
    /\ fault = "none"
    /\ LET ref == ecs_table_get_data(t)
       IN  /\ ret' = BlockHandle(t, ref)
           /\ stage_data' =
                IF ref = "stage" /\ ~stage_data[t].present
                THEN [stage_data EXCEPT ![t] =
                        [present |-> TRUE, data |-> new_data(tables[t].type)]]
                ELSE stage_data
    /\ notified' = <<>>
    /\ removed' = NoRemoval
    /\ UNCHANGED <<tables, in_progress, should_resolve, entity_index,
                   stage_index, active, fault, last_handle>>

\* -------------------------------------------------------------- read pass
\* the scheduler starts a read pass
BeginPass ==
    /\ fault = "none"
    /\ ~in_progress
    /\ in_progress' = TRUE
    /\ ret' = 0
    /\ notified' = <<>>
    /\ removed' = NoRemoval
    /\ UNCHANGED <<tables, stage_data, should_resolve, entity_index, stage_index,
                   active, fault, last_handle>>

\* merge-back of one overlay: the Merge algorithm with the main block as the
\* destination and the overlay as the source
MergeBack(t, idx) ==
    IF stage_data[t].present
    THEN MergeData(tables[t].type, tables[t].data,
                   tables[t].type, stage_data[t].data, idx)
    ELSE [new_data |-> tables[t].data, old_data |-> NoData, index |-> idx,
          abort |-> FALSE, undefined |-> FALSE]

\* the read pass ends: every overlay is merged back, then the stage is dropped
EndPass ==
    /\ fault = "none"
    /\ in_progress
    /\ LET r1 == MergeBack(1, entity_index)
           r2 == MergeBack(2, r1.index)
       IN  /\ tables' = [t \in TableIds |->
                           [tables[t] EXCEPT !.data =
                              IF t = 1 THEN r1.new_data ELSE r2.new_data]]
           /\ entity_index' = r2.index
           /\ fault' \in (IF r1.undefined \/ r2.undefined
                          THEN {"none", "crash"} ELSE {"none"})
    /\ stage_data' = [t \in TableIds |-> [present |-> FALSE, data |-> NoData]]
    /\ stage_index' = [e \in IndexKeys |-> NoRecord]
    /\ in_progress' = FALSE
    /\ Deliver(<<>>)
    /\ ret' = 0
    /\ removed' = NoRemoval
    /\ UNCHANGED <<should_resolve, last_handle>>

\* ------------------------------------------------------------------- spec
\* the columns whose buffer realloc may move: any subset of a block's columns
MoveSets == SUBSET (1..2)

DoInsert == \E t \in TableIds, e \in Entities, mv \in MoveSets : Insert(t, e, mv)
DoGrow ==
    \E t \in TableIds, c \in 1..MaxGrow, e \in Entities, mv \in MoveSets :
        Grow(t, c, e, mv)
DoDelete == \E t \in TableIds, r \in 0..MaxRows : Delete(t, r)
DoSwap ==
    \E t \in TableIds, r1 \in 0..(MaxRows - 1), r2 \in 0..(MaxRows - 1) :
        Swap(t, r1, r2)
DoMoveBack == \E t \in TableIds, r \in 1..MaxRows, c \in 0..MaxRows : MoveBackAndSwap(t, r, c)
DoMerge ==
    \E new \in TableIds, old \in TableIds :
        IsSuperset(tables[new].type, tables[old].type) /\ Merge(new, old)
DoMergeAbsent == \E old \in TableIds : MergeAbsent(old)
DoClear == \E t \in TableIds : Clear(t)
DoRegister == \E t \in TableIds, q \in Queries : Register(t, q)
DoCount == \E t \in TableIds : Count(t)
DoGetData == \E t \in TableIds : GetData(t)

\* every operation of the storage core
Next ==
    \/ DoInsert \/ DoGrow \/ DoDelete \/ DoSwap \/ DoMoveBack
    \/ DoMerge \/ DoMergeAbsent \/ DoClear \/ DoRegister \/ DoCount
    \/ DoGetData \/ BeginPass \/ EndPass

Spec == Init /\ [][Next]_vars

\* The full specification is too large to explore exhaustively within the
\* bounds; each property below is checked under the specification that holds
\* the operations it is about.

\* Row operations and merges on the main blocks.
NextRows == DoInsert \/ DoGrow \/ DoDelete \/ DoSwap \/ DoMoveBack \/ DoMerge
SpecRows == Init /\ [][NextRows]_vars

\* Single-record inserts and deletes under observation.
NextEdges == DoInsert \/ DoDelete
SpecEdges == InitObserved /\ [][NextEdges]_vars

\* Structural migration between the two archetypes, or to no archetype.
NextMerge == DoInsert \/ DoGrow \/ DoDelete \/ DoMerge \/ DoMergeAbsent
SpecMerge == Init /\ [][NextMerge]_vars

\* Writes in and out of read passes, under observation.
NextStage == DoInsert \/ DoGrow \/ DoDelete \/ BeginPass \/ EndPass
SpecStage == InitObserved /\ [][NextStage]_vars

\* Inserts in and out of read passes, under observation.
NextMergeBack == DoInsert \/ BeginPass \/ EndPass
SpecMergeBack == InitObserved /\ [][NextMergeBack]_vars

\* Row counts asked between inserts, deletes and merges.
NextCount == DoInsert \/ DoDelete \/ DoMerge \/ DoCount
SpecCount == Init /\ [][NextCount]_vars

\* Merges in either direction between the two archetypes: also into the
\* archetype whose type lacks a property of the source.
DoMergeAny == \E new \in TableIds, old \in TableIds : Merge(new, old)
NextMergeAny == DoInsert \/ DoGrow \/ DoDelete \/ DoMergeAny
SpecMergeAny == Init /\ [][NextMergeAny]_vars

\* Deletes of any row, in bounds or not.
DoDeleteAny == \E t \in TableIds, r \in (0 - 1)..MaxRows : Delete(t, r)
NextDeleteAny == DoInsert \/ DoDeleteAny
SpecDeleteAny == Init /\ [][NextDeleteAny]_vars

\* Queries registered between inserts and deletes.
NextRegister == DoInsert \/ DoDelete \/ DoRegister
SpecRegister == Init /\ [][NextRegister]_vars

\* Clears between inserts and deletes, under observation.
NextClear == DoInsert \/ DoDelete \/ DoClear
SpecClear == InitObserved /\ [][NextClear]_vars

\* Swaps of rows between inserts and grows, in and out of a read pass.
NextSwap == DoInsert \/ DoGrow \/ DoSwap \/ BeginPass
SpecSwap == Init /\ [][NextSwap]_vars

\* Moves of a run of rows between inserts and grows, in and out of a read pass.
NextMoveBack == DoInsert \/ DoGrow \/ DoMoveBack \/ BeginPass
SpecMoveBack == Init /\ [][NextMoveBack]_vars

\* Structural migration between the two archetypes, under observation.
NextMergeObserved == DoInsert \/ DoDelete \/ DoMerge
SpecMergeObserved == InitObserved /\ [][NextMergeObserved]_vars

\* Blocks acquired and written in and out of read passes.
NextRouting == DoGetData \/ DoInsert \/ BeginPass \/ EndPass
SpecRouting == Init /\ [][NextRouting]_vars

\* ============================================================ properties
Rows(data) == ecs_vector_count(data.entities)

\* every non-tag column of the block is as long as its identifier list
Aligned(data) ==
    \A i \in DOMAIN data.columns :
        data.columns[i].size # 0 =>
            ecs_vector_count(data.columns[i].data) = Rows(data)

\* the row of identifier e in a block (e occurs in it)
RowOf(data, e) == CHOOSE r \in 0..(Rows(data) - 1) : data.entities.elems[r + 1] = e

\* the block a write to table t goes to, in the current state
Block(t) == Deref(t, ecs_table_get_data(t))

\* C1: after every completed operation, in every block of every archetype,
\* the identifier list is as long as every non-tag column.
C1_Alignment ==
    fault = "none" =>
        \A t \in TableIds :
            /\ Aligned(tables[t].data)
            /\ stage_data[t].present => Aligned(stage_data[t].data)

\* what C2 says of a delete of row r from the aligned n-row block pre of
\* table t, which left block post and entity index idx
SwapRemoved(t, pre, post, idx, r) ==
    LET n == Rows(pre)
    IN  /\ Rows(post) = n - 1
        /\ Aligned(post)
        /\ \A i \in 0..(n - 1) : i # r =>
             LET e == pre.entities.elems[i + 1]
                 at == { j \in 0..(Rows(post) - 1) : post.entities.elems[j + 1] = e }
             IN  /\ Cardinality(at) = 1
                 /\ \A j \in at :
                      /\ (i # n - 1 => j = i)
                      /\ \A c \in DOMAIN pre.columns :
                           pre.columns[c].size # 0 =>
                               /\ j < ecs_vector_count(post.columns[c].data)
                               /\ post.columns[c].data.elems[j + 1] =
                                    pre.columns[c].data.elems[i + 1]
        /\ r # n - 1 =>
             /\ post.entities.elems[r + 1] = pre.entities.elems[n]
             /\ idx[pre.entities.elems[n]] = Record(tables[t].type, r + 1)

\* C2: a completed delete of row r from an aligned n-row block leaves an
\* aligned (n-1)-row block in which every other record occurs once with its
\* own column values, the former last record at row r with index row r + 1,
\* and every other record on its old row.
C2_SwapRemove ==
    [][\A t \in TableIds, r \in 0..MaxRows :
          (Delete(t, r) /\ fault' = "none" /\ Aligned(Block(t)))
              => SwapRemoved(t, Block(t), Block(t)', IndexOf(ecs_table_get_data(t))', r)]_vars

\* notes holds exactly one notification per query registered with table t,
\* each telling it flag
OnceEach(notes, t, flag) ==
    /\ Len(notes) = Len(tables[t].queries)
    /\ \A q \in Range(tables[t].queries) :
         Cardinality({ i \in 1..Len(notes) :
                         notes[i] = [q |-> q, t |-> t, active |-> flag] }) = 1

\* C3: with no read pass active, an insert that takes the main block from 0
\* rows to 1 tells every registered query once that the table became
\* non-empty, a delete that takes it from 1 row to 0 tells every one once
\* that it became empty, and every other insert or delete tells nothing.
C3_ActivationEdges ==
    [][\A t \in TableIds :
          /\ \A e \in Entities, mv \in MoveSets :
               (~in_progress /\ Insert(t, e, mv)) =>
                   IF Rows(tables[t].data) = 0
                   THEN OnceEach(notified', t, TRUE)
                   ELSE notified' = <<>>
          /\ \A r \in 0..MaxRows :
               (~in_progress /\ Delete(t, r) /\ fault' = "none") =>
                   IF Rows(tables[t].data) = 1
                   THEN OnceEach(notified', t, FALSE)
                   ELSE notified' = <<>>]_vars

\* row r of vector v exists and holds x
ElemIs(v, r, x) == r < ecs_vector_count(v) /\ v.elems[r + 1] = x

\* the column of component p in a block of the given type
ColOf(type, p) == CHOOSE i \in DOMAIN type : type[i] = p

\* what C4 says of a merge of the aligned m-row block src (of old_type) into
\* the aligned n-row block dst (of new_type), which left block post
MergePreserved(new_type, dst, old_type, src, post) ==
    LET n == Rows(dst)
        m == Rows(src)
    IN  /\ \A i \in 0..(n - 1) :
             /\ ElemIs(post.entities, i, dst.entities.elems[i + 1])
             /\ \A c \in DOMAIN dst.columns :
                  dst.columns[c].size # 0 =>
                      ElemIs(post.columns[c].data, i, dst.columns[c].data.elems[i + 1])
        /\ \A i \in 0..(m - 1) :
             /\ ElemIs(post.entities, n + i, src.entities.elems[i + 1])
             /\ \A p \in Range(new_type) \cap Range(old_type) :
                  ComponentSize(p) # 0 =>
                      ElemIs(post.columns[ColOf(new_type, p)].data, n + i,
                             src.columns[ColOf(old_type, p)].data.elems[i + 1])

\* C4: a completed merge of an m-row source into an n-row destination of a
\* superset type leaves destination rows 0..n-1 as they were and puts the
\* identifier and the shared column values of source row i on row n + i.
C4_MergePreserves ==
    [][\A new \in TableIds, old \in TableIds :
          (/\ IsSuperset(tables[new].type, tables[old].type)
           /\ Merge(new, old)
           /\ fault' = "none"
           /\ Aligned(tables[new].data)
           /\ Aligned(tables[old].data))
          => MergePreserved(tables[new].type, tables[new].data,
                            tables[old].type, tables[old].data,
                            tables'[new].data)]_vars

\* C5: a completed merge into a superset type leaves the destination with
\* the sum of the two row counts and the source with no record.
C5_MergeCounts ==
    [][\A new \in TableIds, old \in TableIds :
          (/\ IsSuperset(tables[new].type, tables[old].type)
           /\ Merge(new, old)
           /\ fault' = "none")
          => /\ Rows(tables'[new].data) = Rows(tables[new].data) + Rows(tables[old].data)
             /\ Rows(tables'[old].data) = 0]_vars

\* C6: a merge of an archetype holding m >= 1 records into no destination
\* completes, notifies the removal of rows 0..m-1 and leaves the archetype
\* with no record.
C6_MergeAbsent ==
    [][\A old \in TableIds :
          (MergeAbsent(old) /\ Rows(tables[old].data) >= 1)
          => /\ fault' = "none"
             /\ removed' = [table |-> old, row |-> 0, count |-> Rows(tables[old].data)]
             /\ Rows(tables'[old].data) = 0]_vars

\* C7: while a read pass is active, an insert, grow or delete leaves every
\* archetype's main block (identifier list, columns, row count) as it was
\* and sends no activation notification.
C7_OverlayIsolation ==
    [][(in_progress /\ (DoInsert \/ DoGrow \/ DoDelete))
          => /\ tables' = tables
             /\ notified' = <<>>
             /\ active' = active]_vars

\* a read pass is active over an observed archetype that holds records in its
\* main block and whose overlay has received a write
C7_Witness ==
    /\ in_progress
    /\ fault = "none"
    /\ \E t \in TableIds :
         /\ tables[t].queries # <<>>
         /\ Rows(tables[t].data) >= 1
         /\ stage_data[t].present
         /\ Rows(stage_data[t].data) >= 1

\* the elements of a block: its identifiers and the contents of its columns
Contents(data) ==
    [entities |-> data.entities.elems,
     columns  |-> [i \in DOMAIN data.columns |-> data.columns[i].data.elems]]

\* The main block, entity index and activation of one archetype after the
\* identifiers ids were inserted one by one with no read pass active
\* (ecs_table_insert on table->data, the caller's record, line 263).
RECURSIVE ImmediateInserts(_, _, _)
ImmediateInserts(st, type, ids) ==
    IF ids = <<>> THEN st
    ELSE LET newdata == InsertData(st.data, Head(ids))
             index   == InsertIndex(newdata)
         IN  ImmediateInserts(
                 [data      |-> newdata,
                  index     |-> CallerRecords(st.index, type, <<Head(ids)>>, index),
                  activated |-> st.activated \/ index = 0],
                 type, Tail(ids))

\* C8: when a read pass in which records were only inserted ends, merge-back
\* leaves each archetype's main block, the entity index entries of the
\* inserted records and the observers' activation state as the same inserts
\* would have left them with no pass active.
C8_MergeBackEquivalence ==
    [][(EndPass /\ fault' = "none") =>
          \A t \in TableIds :
              (stage_data[t].present /\ Aligned(tables[t].data)) =>
                  LET ids == stage_data[t].data.entities.elems
                      now == ImmediateInserts(
                                 [data |-> tables[t].data, index |-> entity_index,
                                  activated |-> FALSE],
                                 tables[t].type, ids)
                  IN  /\ Contents(tables'[t].data) = Contents(now.data)
                      /\ \A e \in Range(ids) : entity_index'[e] = now.index[e]
                      /\ \A q \in Range(tables[t].queries) :
                           active'[q][t] = (active[q][t] \/ now.activated)]_vars

\* C9: an insert or grow that moves a column buffer of the main block raises
\* should_resolve; no step lowers it; an insert or grow into an overlay
\* leaves it as it was, moved buffer or not.
C9_ReallocationFlag ==
    [][/\ \A t \in TableIds, mv \in MoveSets :
            (/\ ~in_progress
             /\ MovedColumns(tables[t].data, mv) # {}
             /\ \/ \E e \in Entities : Insert(t, e, mv)
                \/ \E c \in 1..MaxGrow, e \in Entities : Grow(t, c, e, mv))
            => should_resolve'
       /\ should_resolve => should_resolve'
       /\ (in_progress /\ (DoInsert \/ DoGrow)) => (should_resolve' = should_resolve)]_vars

\* should_resolve is up after a write to a main block, and a read pass wrote
\* to an overlay whose column buffers were newly allocated
C9_Witness ==
    /\ should_resolve
    /\ in_progress
    /\ \E t \in TableIds :
         /\ stage_data[t].present
         /\ \E i \in DOMAIN stage_data[t].data.columns :
              /\ stage_data[t].data.columns[i].size # 0
              /\ stage_data[t].data.columns[i].data.alloc

\* C10: count returns the number of records of the main block in every
\* state: also for an archetype that never had an insert, one emptied by
\* deletes and the source of a merge.
C10_Count ==
    [][\A t \in TableIds :
          Count(t) => (fault' = "none" /\ ret' = Rows(tables[t].data))]_vars

\* C11: insert returns the number of records the block held before the
\* call, and the identifier list holds the new identifier at that row.
C11_InsertReturnsRow ==
    [][\A t \in TableIds, e \in Entities, mv \in MoveSets :
          Insert(t, e, mv) =>
              /\ ret' = Rows(Block(t))
              /\ ElemIs(Block(t)'.entities, ret', e)]_vars

\* C12: a merge of a non-empty source into a destination whose type lacks a
\* property of the source's type aborts instead of completing.
C12_NonSupersetAborts ==
    [][\A new \in TableIds, old \in TableIds :
          (/\ ~IsSuperset(tables[new].type, tables[old].type)
           /\ Rows(tables[old].data) >= 1
           /\ Merge(new, old))
          => fault' = "abort"]_vars

\* C13: a delete of a row below 0 or not below the block's row count aborts
\* and leaves the blocks and the entity indexes as they were.
C13_DeleteOutOfBounds ==
    [][\A t \in TableIds, r \in (0 - 1)..MaxRows :
          (Delete(t, r) /\ (r < 0 \/ r >= Rows(Block(t))))
          => /\ fault' = "abort"
             /\ tables' = tables
             /\ stage_data' = stage_data
             /\ entity_index' = entity_index
             /\ stage_index' = stage_index]_vars

\* C14: registering a query appends it to the table's query list; when the
\* main block holds records the new query alone is told once that the table
\* is active, and when the main block is empty nothing is sent.
C14_RegisterActivates ==
    [][\A t \in TableIds, q \in Queries :
          Register(t, q) =>
              /\ tables'[t].queries = Append(tables[t].queries, q)
              /\ notified' = IF Rows(tables[t].data) >= 1
                             THEN << [q |-> q, t |-> t, active |-> TRUE] >>
                             ELSE <<>>]_vars

\* a second query was just registered with a table that holds records and
\* already had a query
C14_Witness ==
    \E t \in TableIds :
        /\ Len(tables[t].queries) = 2
        /\ Rows(tables[t].data) >= 1
        /\ notified = << [q |-> 2, t |-> t, active |-> TRUE] >>

\* C15: clear leaves the main block with no row (identifier list and every
\* column empty), notifies no removal, and tells the registered queries that
\* the table became empty exactly when the block held records before.
C15_ClearEmpties ==
    [][\A t \in TableIds :
          Clear(t) =>
              /\ Rows(tables'[t].data) = 0
              /\ \A i \in DOMAIN tables'[t].data.columns :
                   ecs_vector_count(tables'[t].data.columns[i].data) = 0
              /\ removed' = NoRemoval
              /\ IF Rows(tables[t].data) >= 1
                 THEN OnceEach(notified', t, FALSE)
                 ELSE notified' = <<>>]_vars

\* row r with rows a and b exchanged
Exchange(r, a, b) == IF r = a THEN b ELSE IF r = b THEN a ELSE r

\* vector v with the elements of rows a and b exchanged
Exchanged(v, a, b) ==
    [v EXCEPT !.elems = [i \in DOMAIN v.elems |-> v.elems[Exchange(i - 1, a, b) + 1]]]

\* the index entries of the records of a block hold their rows, 1-based
IndexHoldsRows(data, idx) ==
    \A r \in 0..(Rows(data) - 1) :
        idx[data.entities.elems[r + 1]].set /\ idx[data.entities.elems[r + 1]].row = r + 1

\* C16: a swap of two different rows a and b of a block whose columns hold
\* both rows exchanges the two identifiers and the two elements of every
\* non-tag column, stores row b + 1 for the record now at b and a + 1 for the
\* record now at a, and leaves every other row and index entry as it was; a
\* swap of a row with itself changes nothing; and where the index held the
\* rows of the block's records, the same swap applied again restores block
\* and index.
C16_Swap ==
    [][\A t \in TableIds, a \in 0..(MaxRows - 1), b \in 0..(MaxRows - 1) :
          (Swap(t, a, b) /\ ~ColumnsShort(Block(t), {a, b})) =>
              LET ref  == ecs_table_get_data(t)
                  pre  == Block(t)
                  post == Block(t)'
                  idx  == IndexOf(ref)
                  idx2 == IndexOf(ref)'
                  e_a  == pre.entities.elems[a + 1]
                  e_b  == pre.entities.elems[b + 1]
              IN  IF a = b
                  THEN post = pre /\ idx2 = idx
                  ELSE /\ fault' = "none"
                       /\ post.entities = Exchanged(pre.entities, a, b)
                       /\ \A c \in DOMAIN pre.columns :
                            post.columns[c] =
                                IF pre.columns[c].size # 0
                                THEN [pre.columns[c] EXCEPT !.data = Exchanged(@, a, b)]
                                ELSE pre.columns[c]
                       /\ idx2[e_a] = [idx[e_a] EXCEPT !.row = b + 1]
                       /\ idx2[e_b] = [idx[e_b] EXCEPT !.row = a + 1]
                       /\ \A e \in IndexKeys \ {e_a, e_b} : idx2[e] = idx[e]
                       /\ SwapData(post, a, b) = pre
                       /\ IndexHoldsRows(pre, idx) =>
                            SwapIndex(idx2, e_b, e_a, a, b) = idx]_vars

\* a block with a non-tag column whose first two records stand in the
\* reverse of the order they were inserted in, with their column values and
\* their index rows
C16_Witness ==
    /\ fault = "none"
    /\ \E t \in TableIds :
         LET data == tables[t].data
         IN  /\ Rows(data) >= 2
             /\ data.entities.elems[1] > data.entities.elems[2]
             /\ \E c \in DOMAIN data.columns :
                  data.columns[c].size # 0 /\ data.columns[c].data = data.entities
             /\ IndexHoldsRows(data, entity_index)

\* where move_back_and_swap(row, count) puts the record of row r
RotatedRow(r, row, count) ==
    IF r = row - 1 THEN row + count - 1
    ELSE IF r >= row /\ r <= row + count - 1 THEN r - 1
    ELSE r

\* vector post holds every element of vector pre on its rotated row
Rotated(pre, post, row, count) ==
    /\ ecs_vector_count(post) = ecs_vector_count(pre)
    /\ \A r \in 0..(ecs_vector_count(pre) - 1) :
         post.elems[RotatedRow(r, row, count) + 1] = pre.elems[r + 1]

\* C17: move_back_and_swap(row, count) with row >= 1 and row + count within
\* the block moves each of the count records from row on down by one row,
\* puts the record of row - 1 on row + count - 1, moves the elements of every
\* non-tag column with them, stores new row + 1 in the index entry of every
\* moved record, and leaves the other rows and index entries as they were.
C17_MoveBackAndSwap ==
    [][\A t \in TableIds, row \in 1..MaxRows, count \in 0..MaxRows :
          (/\ MoveBackAndSwap(t, row, count)
           /\ ~ColumnsShort(Block(t), (row - 1)..(row + count - 1))) =>
              LET ref  == ecs_table_get_data(t)
                  pre  == Block(t)
                  post == Block(t)'
                  idx  == IndexOf(ref)
                  idx2 == IndexOf(ref)'
                  moved == { pre.entities.elems[r + 1] : r \in (row - 1)..(row + count - 1) }
              IN  /\ fault' = "none"
                  /\ Rotated(pre.entities, post.entities, row, count)
                  /\ \A c \in DOMAIN pre.columns :
                       IF pre.columns[c].size # 0
                       THEN Rotated(pre.columns[c].data, post.columns[c].data, row, count)
                       ELSE post.columns[c] = pre.columns[c]
                  /\ \A r \in (row - 1)..(row + count - 1) :
                       idx2[pre.entities.elems[r + 1]] =
                           [idx[pre.entities.elems[r + 1]] EXCEPT
                              !.row = RotatedRow(r, row, count) + 1]
                  /\ \A e \in IndexKeys \ moved : idx2[e] = idx[e]]_vars

\* a three-record block with a non-tag column after the record of row 0 was
\* carried past the two records behind it
C17_Witness ==
    /\ fault = "none"
    /\ \E t \in TableIds :
         LET data == tables[t].data
         IN  /\ data.entities.elems = <<2, 3, 1>>
             /\ \E c \in DOMAIN data.columns :
                  data.columns[c].size # 0 /\ data.columns[c].data = data.entities
             /\ IndexHoldsRows(data, entity_index)

\* C18: a completed merge stores, for the record of source row i, an index
\* entry with the destination's type and the row n + i of the destination
\* (n its row count before the merge) in the 1-based convention, n + i + 1.
C18_MergeIndexRows ==
    [][\A new \in TableIds, old \in TableIds :
          (/\ IsSuperset(tables[new].type, tables[old].type)
           /\ Merge(new, old)
           /\ fault' = "none")
          => \A i \in 0..(Rows(tables[old].data) - 1) :
                 entity_index'[tables[old].data.entities.elems[i + 1]] =
                     Record(tables[new].type, Rows(tables[new].data) + i + 1)]_vars

\* C19: a completed merge that takes the destination's main block from no
\* row to one or more tells every query registered with the destination
\* once that it became non-empty, and one that takes the source's main block
\* from one or more rows to none tells every query registered with the
\* source once that it became empty.
C19_MergeActivates ==
    [][\A new \in TableIds, old \in TableIds :
          (/\ IsSuperset(tables[new].type, tables[old].type)
           /\ Merge(new, old)
           /\ fault' = "none")
          => /\ (Rows(tables[new].data) = 0 /\ Rows(tables'[new].data) >= 1) =>
                  \A q \in Range(tables[new].queries) :
                      Cardinality({ i \in 1..Len(notified') : notified'[i] =
                          [q |-> q, t |-> new, active |-> TRUE] }) = 1
             /\ (Rows(tables[old].data) >= 1 /\ Rows(tables'[old].data) = 0) =>
                  \A q \in Range(tables[old].queries) :
                      Cardinality({ i \in 1..Len(notified') : notified'[i] =
                          [q |-> q, t |-> old, active |-> FALSE] }) = 1]_vars

\* C20: grow tells the registered queries that the table became non-empty
\* exactly when no read pass is active and the block held no record before
\* the call (its row count after the call is count), whatever the first
\* property of the type is and whatever was deleted before; otherwise it
\* sends nothing.
C20_GrowActivates ==
    [][\A t \in TableIds, c \in 1..MaxGrow, e \in Entities, mv \in MoveSets :
          Grow(t, c, e, mv) =>
              IF ~in_progress /\ Rows(Block(t)') = c
              THEN OnceEach(notified', t, TRUE)
              ELSE notified' = <<>>]_vars

\* C21: with no read pass in progress get_data returns the table's main
\* block and creates nothing; in a read pass it returns the stage's overlay
\* for the table's type and never the main block, creates that overlay empty
\* when the stage has none and leaves it as it is when it has one; it never
\* touches a main block or another overlay, and a stage never holds two
\* overlays for one type.
C21_WriteRouting ==
    [][\A t \in TableIds :
          GetData(t) =>
              /\ tables' = tables
              /\ \A u \in TableIds \ {t} : stage_data'[u] = stage_data[u]
              /\ IF ~in_progress
                 THEN /\ ret' = BlockHandle(t, "main")
                      /\ stage_data' = stage_data
                 ELSE /\ ret' = BlockHandle(t, "stage")
                      /\ ret' # BlockHandle(t, "main")
                      /\ stage_data'[t].present
                      /\ stage_data'[t].data =
                             IF stage_data[t].present THEN stage_data[t].data
                             ELSE new_data(tables[t].type)
              /\ Cardinality({ u \in TableIds :
                                 /\ stage_data'[u].present
                                 /\ tables[u].type = tables[t].type }) <= 1]_vars

\* in a read pass, a call that came after a write to the overlay returned
\* that overlay, with the record in it
C21_Witness ==
    /\ in_progress
    /\ fault = "none"
    /\ \E t \in TableIds :
         /\ ret = BlockHandle(t, "stage")
         /\ stage_data[t].present
         /\ Rows(stage_data[t].data) >= 1

====
